---- MODULE Spec2Model ----
(***************************************************************************)
(* Model of app.py: a Streamlit script that extracts the text of an        *)
(* uploaded PDF, runs heuristic writing checks on it and prints a list of  *)
(* suggestions plus a downloadable Markdown report.                        *)
(*                                                                         *)
(* The script is re-executed from top to bottom on every widget            *)
(* interaction; one action of the model is one widget change together      *)
(* with the whole script run it triggers.                                  *)
(*                                                                         *)
(* A document is described by what the external libraries and the regular  *)
(* expressions of the script see in it: whether PdfReader raises, the      *)
(* length of the joined page texts and of their surrounding whitespace,    *)
(* the sentences (word count, be-verb + "-ed" match, number of "-ly"       *)
(* words), the bullet lines, the duplicate-word matches, the all-caps      *)
(* words, the words unknown to the spelling dictionary and the outcome of  *)
(* the textstat calls.                                                     *)
(***************************************************************************)
EXTENDS Integers, Sequences, FiniteSets, TLC

VARIABLES
    uploaded,     \* <<>> (no file) or <<doc>>: value of st.file_uploader
    adv,          \* value of the "Show detailed issues list" checkbox
    spellLib,     \* what sp.correction returns when it has no candidate
    streamPos,    \* read position the last run left in its UploadedFile
    warning,      \* the OCR warning is on the page
    metrics,      \* <<>> or <<[words, sentences, avg]>>: the three st.metric
    shownStats,   \* <<>> or <<mapping>>: the readability block (st.json)
    suggestions,  \* the bullets written under "Top Suggestions"
    detailed,     \* <<>> or <<record of the seven expanders' contents>>
    report,       \* <<>> or <<string>>: data of the download button
    text,         \* input of the sentence splitter
    sents,        \* split_sentences(text)
    again,        \* split_sentences of the sentences joined by one space
    phase,        \* position of the sentence-splitter run
    lastEvent     \* the widget interaction that caused the last run

appVars == <<uploaded, adv, spellLib, streamPos, warning, metrics, shownStats,
             suggestions, detailed, report, lastEvent>>
splitVars == <<text, sents, again, phase>>
vars == <<uploaded, adv, spellLib, streamPos, warning, metrics, shownStats,
          suggestions, detailed, report, text, sents, again, phase, lastEvent>>

(***************************************************************************)
(* Program constants                                                       *)
(***************************************************************************)
MinTextLen == 200
LongThreshold == 25
AdverbThreshold == 3
BulletMaxWords == 20
CapsTop == 20
MaxItems == 30
FleschLimit == 60
AvgLimit == 20
MinLong == 3
MinPassive == 3
MinAdverbs == 3
MinSpell == 5
MinBullets == 1
DisplayCap == 50

(***************************************************************************)
(* Bounds of the model                                                     *)
(***************************************************************************)
Big == 51        \* "many" issues of one kind in a document
BigLen == 20000  \* length of the text of a long document
MaxLen == 4      \* longest text given to the sentence splitter

Min(a, b) == IF a < b THEN a ELSE b

(***************************************************************************)
(* Python's round(): nearest, ties to even.  RoundDiv(a, b) is round(a/b). *)
(***************************************************************************)
RoundDiv(a, b) ==
    LET q == a \div b
        r == a % b
    IN  IF 2 * r < b THEN q
        ELSE IF 2 * r > b THEN q + 1
        ELSE IF q % 2 = 0 THEN q ELSE q + 1

(***************************************************************************)
(* Documents                                                               *)
(***************************************************************************)
\* split_sentences(text) of a document: its sentences in order.  Each is
\* [wc: len(words(s)), be_ed: the passive pattern matches, ly: "-ly" words].
Rep(n, s) == [i \in 1..n |-> s]
PlainSentences(p) ==
    CASE p = "one15" -> Rep(1, [wc |-> 15, be_ed |-> FALSE, ly |-> 0])
      [] p = "one25" -> Rep(1, [wc |-> 25, be_ed |-> FALSE, ly |-> 1])
      [] p = "wordy" -> Rep(60, [wc |-> 24, be_ed |-> FALSE, ly |-> 0])
      [] p = "many"  -> Rep(200, [wc |-> 20, be_ed |-> FALSE, ly |-> 0])
                        \o Rep(1, [wc |-> 21, be_ed |-> FALSE, ly |-> 0])

DocSentences(d) ==
    PlainSentences(d.plain)
    \o Rep(d.nLong,    [wc |-> 26, be_ed |-> FALSE, ly |-> 2])
    \o Rep(d.nPassive, [wc |-> 10, be_ed |-> TRUE,  ly |-> 2])
    \o Rep(d.nAdv,     [wc |-> 12, be_ed |-> FALSE, ly |-> 3])
    \o Rep(d.nTriple,  [wc |-> 30, be_ed |-> TRUE,  ly |-> 4])

\* len(words(line)) of the bullet lines of the document, in order.
DocBullets(d) ==
    Rep(d.nBullets, 21) \o (IF d.plain = "many" THEN <<20>> ELSE <<>>)

\* sum(len(words(s)) for s in sentences), summed by halves to keep the
\* evaluation shallow.
RECURSIVE SumWc(_, _, _)
SumWc(ss, lo, hi) ==
    IF lo > hi THEN 0
    ELSE IF lo = hi THEN ss[lo].wc
    ELSE LET mid == (lo + hi) \div 2
         IN  SumWc(ss, lo, mid) + SumWc(ss, mid + 1, hi)

RECURSIVE SumSeq(_, _, _)
SumSeq(s, lo, hi) ==
    IF lo > hi THEN 0
    ELSE IF lo = hi THEN s[lo]
    ELSE LET mid == (lo + hi) \div 2
         IN  SumSeq(s, lo, mid) + SumSeq(s, mid + 1, hi)

\* len(words(text)): every word of the text lies in exactly one sentence.
DocWords(d) == LET ss == DocSentences(d) IN SumWc(ss, 1, Len(ss))

\* A text the program can see: its words fit in it (a word and a separator
\* take two characters), and the bullet lines, duplicate pairs, all-caps
\* words and unknown words are words of the text.
Feasible(d) ==
    /\ d.lead + d.trail <= d.rawLen
    /\ 2 * DocWords(d) - 1 <= d.rawLen - d.lead - d.trail
    /\ LET b == DocBullets(d)
       IN  SumSeq(b, 1, Len(b)) + 2 * d.nDupes + d.nCaps + d.nUnknown <= DocWords(d)

\* Outcome of the textstat calls: failAt is the first of the six calls that
\* raises (0: none), fleschRaw the Flesch Reading Ease in hundredths.
Readability ==
    { [failAt |-> 0, fleschRaw |-> 5500], [failAt |-> 0, fleschRaw |-> 5996],
      [failAt |-> 1, fleschRaw |-> 5500], [failAt |-> 6, fleschRaw |-> 5500] }

ReadabilityFew ==
    { [failAt |-> 0, fleschRaw |-> 5500], [failAt |-> 6, fleschRaw |-> 5500] }

\* Long documents with every count at its rule's threshold or one below it.
Core ==
    [ parse : {"ok"}, rawLen : {BigLen}, lead : {0}, trail : {0},
      plain : {"one15", "wordy"},
      nLong : {2, 3}, nPassive : {2, 3}, nAdv : {2, 3}, nTriple : {0, 1},
      nUnknown : {4, 5}, nBullets : {0, 1},
      nDupes : {0}, nCaps : {0}, read : Readability ]

\* Long documents with no issue or many issues of each kind.
Extremes ==
    [ parse : {"ok"}, rawLen : {BigLen}, lead : {0}, trail : {0},
      plain : {"one15", "wordy"},
      nLong : {0, Big}, nPassive : {0, Big}, nAdv : {0, Big}, nTriple : {0},
      nUnknown : {0, Big}, nBullets : {0, Big},
      nDupes : {0, Big}, nCaps : {0, Big}, read : ReadabilityFew ]

\* Long documents of many sentences averaging about AvgLimit words.
Near20 ==
    [ parse : {"ok"}, rawLen : {BigLen}, lead : {0}, trail : {0},
      plain : {"many"},
      nLong : {0, 3}, nPassive : {0, 3}, nAdv : {0}, nTriple : {0, 1},
      nUnknown : {0, 5}, nBullets : {0, 1},
      nDupes : {0}, nCaps : {0}, read : Readability ]

\* Documents whose text is about MinTextLen characters long.
Small ==
    [ parse : {"ok"}, rawLen : {0, 199, 200, 201, 202}, lead : {0, 1}, trail : {0, 1},
      plain : {"one15", "one25"},
      nLong : {0, 3}, nPassive : {0}, nAdv : {0}, nTriple : {0},
      nUnknown : {0, 5}, nBullets : {0, 1},
      nDupes : {0}, nCaps : {0}, read : ReadabilityFew ]

\* Files PdfReader cannot read.
Broken ==
    [ parse : {"raises"}, rawLen : {0, BigLen}, lead : {0}, trail : {0},
      plain : {"one15", "many"},
      nLong : {0, Big}, nPassive : {0}, nAdv : {0}, nTriple : {0},
      nUnknown : {0}, nBullets : {0},
      nDupes : {0}, nCaps : {0}, read : {[failAt |-> 0, fleschRaw |-> 5500]} ]

Docs == Broken \cup { d \in Core \cup Extremes \cup Near20 \cup Small : Feasible(d) }

(***************************************************************************)
(* Utilities of app.py                                                     *)
(***************************************************************************)
\* UploadedFile.read(): the bytes from the read position to the end.
\* <<>> is the empty byte string, <<d>> the bytes of document d.
ReadUpload(d, pos) == IF pos = "start" THEN <<d>> ELSE <<>>

\* "\n".join(texts).strip(), or "" when PdfReader or a page raises.  A text
\* is [len: its length, of: <<d>> for the stripped text of d, <<>> if empty].
extract_text_from_pdf(file_bytes) ==
    IF file_bytes = <<>> THEN [len |-> 0, of |-> <<>>]
    ELSE LET d == file_bytes[1]
             n == d.rawLen - d.lead - d.trail
         IN  IF d.parse = "raises" \/ n = 0
             THEN [len |-> 0, of |-> <<>>]
             ELSE [len |-> n, of |-> <<d>>]

\* TooShort with the comparison made inclusive.
TooShortInclusive(t) == t.len = 0 \/ t.len <= MinTextLen

\* not text or len(text) < 200
TooShort(t) == t.len = 0 \/ t.len < MinTextLen

\* The average as the fraction num/den; 0.0 for no sentences.
avg_words_per_sentence(sentences) ==
    IF sentences = <<>> THEN [num |-> 0, den |-> 1]
    ELSE [num |-> SumWc(sentences, 1, Len(sentences)), den |-> Len(sentences)]

\* round(avg, 2), in hundredths.
Round2(avg) == RoundDiv(100 * avg.num, avg.den)

\* enumerate(sentences, 1)
Enumerate(ss) == [i \in 1..Len(ss) |-> <<i, ss[i]>>]

\* (i, wc, s) for each sentence of more than threshold words
find_long_sentences(sentences, threshold) ==
    LET hits == SelectSeq(Enumerate(sentences), LAMBDA p : p[2].wc > threshold)
    IN  [k \in 1..Len(hits) |-> <<hits[k][1], hits[k][2].wc, hits[k][2]>>]

\* (i, s) for each sentence the be-verb + "-ed" pattern is found in
find_passive_voice(sentences) ==
    SelectSeq(Enumerate(sentences), LAMBDA p : p[2].be_ed)

\* (i, count, s) for each sentence with at least threshold "-ly" words
find_adverbs(sentences, threshold) ==
    LET hits == SelectSeq(Enumerate(sentences), LAMBDA p : p[2].ly >= threshold)
    IN  [k \in 1..Len(hits) |-> <<hits[k][1], hits[k][2].ly, hits[k][2]>>]

\* One (word, context) pair per match; the k-th match is named k.
find_duplicate_words(t) ==
    IF t.of = <<>> THEN <<>> ELSE [k \in 1..t.of[1].nDupes |-> <<k, k>>]

\* Counter(caps).most_common(20): the all-caps words of the model occur once
\* each, so the order is first-seen order; the k-th distinct word is named k.
find_all_caps_words(t) ==
    IF t.of = <<>> THEN <<>>
    ELSE [k \in 1..Min(t.of[1].nCaps, CapsTop) |-> <<k, 1>>]

\* (wc, line) for each bullet line of more than max_words words; a line is
\* named by its position among the bullet lines.
find_bullets_with_long_lines(t, max_words) ==
    IF t.of = <<>> THEN <<>>
    ELSE LET ls == DocBullets(t.of[1])
             hits == SelectSeq([i \in 1..Len(ls) |-> <<ls[i], i>>],
                               LAMBDA p : p[1] > max_words)
         IN  hits

\* sp.unknown(toks): the unknown words, each named by its alphabetical rank.
Unknown(t) == IF t.of = <<>> THEN {} ELSE 1..t.of[1].nUnknown

\* The dictionary has a candidate for the odd-ranked unknown words only.
HasCandidate(w) == w % 2 = 1

\* sp.correction(w): <<c>> for a word c, <<>> for None.  Without a candidate
\* the library returns the word itself or None, depending on its version.
Correction(w, lib) ==
    IF HasCandidate(w) THEN <<w + 1000>>
    ELSE IF lib = "word" THEN <<w>> ELSE <<>>

MaxOf(S) == IF S = {} THEN 0 ELSE CHOOSE x \in S : \A y \in S : y <= x

\* sorted(list(S)) for a set S of ranks within 1..top
Sorted(S, top) == SelectSeq([i \in 1..top |-> i], LAMBDA i : i \in S)

\* sorted(list(miss))[:max_items], each paired with sp.correction(w).
spelling_suggestions(t, max_items, lib) ==
    LET miss == Unknown(t)
        ws == Sorted(miss, MaxOf(miss))
    IN  [k \in 1..Min(Len(ws), max_items) |-> <<ws[k], Correction(ws[k], lib)>>]

StatKeys == {"Flesch Reading Ease (higher is easier)", "Flesch-Kincaid Grade (US school grade)", "SMOG Index",
             "Dale-Chall Score", "Words", "Sentences"}

\* readability_summary keeping the scores computed before the failing call.
readability_partial(t) ==
    LET r == t.of[1].read
        done == IF r.failAt = 0 THEN StatKeys
                ELSE IF r.failAt = 1 THEN {}
                ELSE {"Flesch Reading Ease (higher is easier)"}
    IN  [k \in done |->
            CASE k = "Flesch Reading Ease (higher is easier)" -> RoundDiv(r.fleschRaw, 10)
              [] k = "Words" -> DocWords(t.of[1])
              [] k = "Sentences" -> Len(DocSentences(t.of[1]))
              [] OTHER -> 0]

\* The mapping of the six scores, or the empty mapping when a textstat call
\* raises.  Only the Flesch Reading Ease (in tenths) is read by the script.
readability_summary(t) ==
    LET r == t.of[1].read
    IN  IF r.failAt # 0 THEN <<>>
        ELSE [k \in StatKeys |->
                CASE k = "Flesch Reading Ease (higher is easier)" -> RoundDiv(r.fleschRaw, 10)
                  [] k = "Words" -> DocWords(t.of[1])
                  [] k = "Sentences" -> Len(DocSentences(t.of[1]))
                  [] OTHER -> 0]

(***************************************************************************)
(* The suggestion aggregator and the report                                *)
(***************************************************************************)
\* The suggestion strings ("~14-20" is written with an en dash in app.py).
MsgFlesch == "Improve readability: use shorter sentences and simpler words (Flesch score < 60)."
MsgAvg == "Shorten sentences: aim for ~14-20 words per sentence on average."
MsgLong(n) == "Break up long sentences: found " \o ToString(n) \o " sentences over 25 words."
MsgPassive(n) == "Reduce passive voice: found " \o ToString(n) \o " likely cases."
MsgAdverbs(n) == "Trim adverbs (-ly): " \o ToString(n) \o " sentences have many adverbs."
MsgSpell(n) == "Fix spelling: at least " \o ToString(n) \o " possible misspellings."
MsgBullets(n) == "Tighten bullet points: " \o ToString(n) \o " bullets exceed " \o ToString(20) \o " words."
Fallback == "Looks good! No major issues detected by the basic checks."

\* stats and stats.get("Flesch Reading Ease (higher is easier)", 100) < 60
FleschFires(stats) ==
    /\ DOMAIN stats # {}
    /\ (IF "Flesch Reading Ease (higher is easier)" \in DOMAIN stats
        THEN stats["Flesch Reading Ease (higher is easier)"] ELSE 100 * 10) < FleschLimit * 10

\* avg_wps > 20, avg_wps in hundredths
AvgFires(avg_wps) == avg_wps > AvgLimit * 100

\* Rules with the passive-voice check chained to the long-sentence check by
\* an elif.
RulesExclusive(stats, avg_wps, nl, np, na, ns, nb) ==
       (IF FleschFires(stats) THEN <<MsgFlesch>> ELSE <<>>)
    \o (IF AvgFires(avg_wps) THEN <<MsgAvg>> ELSE <<>>)
    \o (IF nl >= MinLong THEN <<MsgLong(nl)>>
        ELSE IF np >= MinPassive THEN <<MsgPassive(np)>> ELSE <<>>)
    \o (IF na >= MinAdverbs THEN <<MsgAdverbs(na)>> ELSE <<>>)
    \o (IF ns >= MinSpell THEN <<MsgSpell(ns)>> ELSE <<>>)
    \o (IF nb >= MinBullets THEN <<MsgBullets(nb)>> ELSE <<>>)

\* The chain of independent ifs appending to suggestions.
Rules(stats, avg_wps, nl, np, na, ns, nb) ==
       (IF FleschFires(stats) THEN <<MsgFlesch>> ELSE <<>>)
    \o (IF AvgFires(avg_wps) THEN <<MsgAvg>> ELSE <<>>)
    \o (IF nl >= MinLong THEN <<MsgLong(nl)>> ELSE <<>>)
    \o (IF np >= MinPassive THEN <<MsgPassive(np)>> ELSE <<>>)
    \o (IF na >= MinAdverbs THEN <<MsgAdverbs(na)>> ELSE <<>>)
    \o (IF ns >= MinSpell THEN <<MsgSpell(ns)>> ELSE <<>>)
    \o (IF nb >= MinBullets THEN <<MsgBullets(nb)>> ELSE <<>>)

\* WithFallback appending the fallback without testing the list.
WithFallbackAlways(s) == Append(s, Fallback)

\* if not suggestions: suggestions.append(fallback)
WithFallback(s) == IF s = <<>> THEN <<Fallback>> ELSE s

\* Shown without the slice.
ShownAll(lst) == lst

\* lst[:50]
Shown(lst) == SubSeq(lst, 1, Min(Len(lst), DisplayCap))

RECURSIVE JoinLines(_)
JoinLines(ls) ==
    IF ls = <<>> THEN ""
    ELSE IF Len(ls) = 1 THEN ls[1]
    ELSE ls[1] \o "\n" \o JoinLines(Tail(ls))

\* Report starting its loop at the second suggestion.
ReportSkipsFirst(sugg) ==
    JoinLines(<<"# PDF Suggestions Report">> \o [i \in 1..(Len(sugg) - 1) |-> "- " \o sugg[i + 1]])

\* report_lines = [title] + ["- " + s for s in suggestions]; "\n".join
Report(sugg) ==
    JoinLines(<<"# PDF Suggestions Report">> \o [i \in 1..Len(sugg) |-> "- " \o sugg[i]])

(***************************************************************************)
(* One run of the script                                                   *)
(***************************************************************************)
\* OpenUpload handing out the stream where the previous run left it.
OpenUploadKept(prevPos) == prevPos

\* uploaded = st.file_uploader(...): every run of the script is handed a new
\* UploadedFile stream over the stored bytes, positioned at its start.
OpenUpload(prevPos) == "start"

\* What a run leaves on the page when it analyses nothing.
Blank ==
    [ streamPos |-> "start", warning |-> FALSE, metrics |-> <<>>, shownStats |-> <<>>,
      suggestions |-> <<>>, detailed |-> <<>>, report |-> <<>> ]

\* The else branch: summary, readability, checks, suggestions, details, report.
Analysis(t, a, lib) ==
    LET sentences == DocSentences(t.of[1])
        wcount == DocWords(t.of[1])
        avg_wps == Round2(avg_words_per_sentence(sentences))
        stats == readability_summary(t)
        long_sents == find_long_sentences(sentences, LongThreshold)
        passive == find_passive_voice(sentences)
        adverbs == find_adverbs(sentences, AdverbThreshold)
        dupes == find_duplicate_words(t)
        caps == find_all_caps_words(t)
        long_bullets == find_bullets_with_long_lines(t, BulletMaxWords)
        spell == spelling_suggestions(t, MaxItems, lib)
        sugg == WithFallback(Rules(stats, avg_wps, Len(long_sents), Len(passive),
                                   Len(adverbs), Len(spell), Len(long_bullets)))
    IN  [ streamPos |-> "end",
          warning |-> FALSE,
          metrics |-> << [words |-> wcount, sentences |-> Len(sentences), avg |-> avg_wps] >>,
          shownStats |-> IF DOMAIN stats # {} THEN <<stats>> ELSE <<>>,
          suggestions |-> sugg,
          detailed |-> IF a
                       THEN << [ long |-> Shown(long_sents), passive |-> Shown(passive),
                                 adverbs |-> Shown(adverbs), dupes |-> Shown(dupes),
                                 caps |-> caps, bullets |-> Shown(long_bullets),
                                 spell |-> spell ] >>
                       ELSE <<>>,
          report |-> <<Report(sugg)>> ]

\* The script from top to bottom, for widget values up and a.
Script(up, a, lib, prevPos) ==
    IF up = <<>> THEN Blank
    ELSE LET pos == OpenUpload(prevPos)
             pdf_bytes == ReadUpload(up[1], pos)
             t == extract_text_from_pdf(pdf_bytes)
         IN  IF TooShort(t)
             THEN [Blank EXCEPT !.warning = TRUE, !.streamPos = "end"]
             ELSE Analysis(t, a, lib)

Rerun(up, a, prevPos) ==
    LET out == Script(up, a, spellLib, prevPos)
    IN  /\ streamPos' = out.streamPos
        /\ warning' = out.warning
        /\ metrics' = out.metrics
        /\ shownStats' = out.shownStats
        /\ suggestions' = out.suggestions
        /\ detailed' = out.detailed
        /\ report' = out.report

Idle ==
    /\ uploaded = <<>> /\ adv = FALSE /\ streamPos = "start"
    /\ warning = FALSE /\ metrics = <<>> /\ shownStats = <<>>
    /\ suggestions = <<>> /\ detailed = <<>> /\ report = <<>>
    /\ lastEvent = "none"

Init ==
    /\ Idle
    /\ spellLib \in {"word", "None"}
    /\ text = "" /\ sents = <<>> /\ again = <<>> /\ phase = "app"

\* The user uploads a PDF.
Upload(d) ==
    /\ uploaded = <<>>
    /\ uploaded' = <<d>>
    /\ Rerun(<<d>>, adv, "start")
    /\ lastEvent' = "upload"
    /\ UNCHANGED <<adv, spellLib, text, sents, again, phase>>

\* The user removes the uploaded file.
Remove ==
    /\ uploaded # <<>>
    /\ uploaded' = <<>>
    /\ Rerun(<<>>, adv, streamPos)
    /\ lastEvent' = "remove"
    /\ UNCHANGED <<adv, spellLib, text, sents, again, phase>>

\* The user ticks or unticks "Show detailed issues list".
ToggleDetailed ==
    /\ adv' = ~adv
    /\ Rerun(uploaded, ~adv, streamPos)
    /\ lastEvent' = "toggle"
    /\ UNCHANGED <<uploaded, spellLib, text, sents, again, phase>>

Next ==
    \/ \E d \in Docs : Upload(d)
    \/ Remove
    \/ ToggleDetailed

Spec == Init /\ [][Next]_vars

(***************************************************************************)
(* split_sentences on character strings                                    *)
(***************************************************************************)
Alphabet == {"a", ".", "?", " ", "\n"}
Whitespace == {" ", "\n"}
Terminators == {".", "!", "?"}

Char(s, i) == SubSeq(s, i, i)

\* Index of the first character at or after i that is not whitespace.
RECURSIVE SkipSpace(_, _)
SkipSpace(s, i) ==
    IF i <= Len(s) /\ Char(s, i) \in Whitespace THEN SkipSpace(s, i + 1) ELSE i

\* re.sub(r'\s+', ' ', text)
RECURSIVE SubSpaces(_, _)
SubSpaces(s, i) ==
    IF i > Len(s) THEN ""
    ELSE IF Char(s, i) \in Whitespace THEN " " \o SubSpaces(s, SkipSpace(s, i))
    ELSE Char(s, i) \o SubSpaces(s, i + 1)

\* re.split(r'(?<=[.!?])\s+', s): cut at every whitespace run that follows
\* a terminator; cur is the piece being read.
RECURSIVE ReSplit(_, _, _)
ReSplit(s, i, cur) ==
    IF i > Len(s) THEN <<cur>>
    ELSE IF Char(s, i) \in Whitespace /\ i > 1 /\ Char(s, i - 1) \in Terminators
         THEN <<cur>> \o ReSplit(s, SkipSpace(s, i), "")
    ELSE ReSplit(s, i + 1, cur \o Char(s, i))

\* str.strip()
RECURSIVE RStrip(_)
RStrip(s) ==
    IF s # "" /\ Char(s, Len(s)) \in Whitespace THEN RStrip(SubSeq(s, 1, Len(s) - 1)) ELSE s

Strip(s) == LET i == SkipSpace(s, 1) IN RStrip(SubSeq(s, i, Len(s)))

\* split_sentences keeping the pieces unstripped.
split_unstripped(t) ==
    LET parts == ReSplit(SubSpaces(t, 1), 1, "")
    IN  SelectSeq(parts, LAMBDA p : Strip(p) # "")

\* [s.strip() for s in re.split(...) if s.strip()]
split_sentences(t) ==
    LET parts == ReSplit(SubSpaces(t, 1), 1, "")
        kept == SelectSeq(parts, LAMBDA p : Strip(p) # "")
    IN  [k \in 1..Len(kept) |-> Strip(kept[k])]

\* " ".join(ss)
RECURSIVE JoinSpace(_)
JoinSpace(ss) ==
    IF ss = <<>> THEN ""
    ELSE IF Len(ss) = 1 THEN ss[1]
    ELSE ss[1] \o " " \o JoinSpace(Tail(ss))

\* The strings over Alphabet of length at most n.
RECURSIVE StringsUpTo(_)
StringsUpTo(n) ==
    IF n = 0 THEN {""}
    ELSE LET S == StringsUpTo(n - 1)
         IN  S \cup { s \o c : s \in { x \in S : Len(x) = n - 1 }, c \in Alphabet }

InitSplit ==
    /\ Idle
    /\ spellLib = "word"
    /\ text \in StringsUpTo(MaxLen)
    /\ sents = <<>> /\ again = <<>> /\ phase = "input"

\* S = split_sentences(text)
Split ==
    /\ phase = "input"
    /\ sents' = split_sentences(text)
    /\ phase' = "split"
    /\ UNCHANGED <<appVars, text, again>>

\* Splitting a second time: the sentences joined by single spaces.
SplitAgain ==
    /\ phase = "split"
    /\ again' = split_sentences(JoinSpace(sents))
    /\ phase' = "done"
    /\ UNCHANGED <<appVars, text, sents>>

NextSplit == Split \/ SplitAgain

SpecSplit == InitSplit /\ [][NextSplit]_vars

\* Already normalized, single-spaced text: spaces only, never two in a row.
Normalized(s) ==
    \A i \in 1..Len(s) :
        /\ Char(s, i) \in Whitespace => Char(s, i) = " "
        /\ i > 1 /\ Char(s, i) = " " => Char(s, i - 1) # " "

(***************************************************************************)
(* Properties                                                              *)
(***************************************************************************)
HasFile == uploaded # <<>>
Doc == uploaded[1]
Analysed == metrics # <<>>
TextLen(d) == d.rawLen - d.lead - d.trail

\* The issue counts of the uploaded document, counted on the document.
CountLong ==
    LET ss == DocSentences(Doc)
    IN  Cardinality({ i \in DOMAIN ss : ss[i].wc > LongThreshold })
CountPassive ==
    LET ss == DocSentences(Doc) IN Cardinality({ i \in DOMAIN ss : ss[i].be_ed })
CountAdverbs ==
    LET ss == DocSentences(Doc)
    IN  Cardinality({ i \in DOMAIN ss : ss[i].ly >= AdverbThreshold })
CountSpell == Min(Doc.nUnknown, MaxItems)
CountBullets ==
    LET ls == DocBullets(Doc)
    IN  Cardinality({ i \in DOMAIN ls : ls[i] > BulletMaxWords })

StartsWith(s, p) == Len(s) >= Len(p) /\ SubSeq(s, 1, Len(p)) = p

\* The row of the rule table a suggestion belongs to (8: the fallback).
RuleIndex(msg) ==
    CASE StartsWith(msg, "Improve readability:") -> 1
      [] StartsWith(msg, "Shorten sentences:") -> 2
      [] StartsWith(msg, "Break up long sentences:") -> 3
      [] StartsWith(msg, "Reduce passive voice:") -> 4
      [] StartsWith(msg, "Trim adverbs (-ly):") -> 5
      [] StartsWith(msg, "Fix spelling:") -> 6
      [] StartsWith(msg, "Tighten bullet points:") -> 7
      [] StartsWith(msg, "Looks good!") -> 8
      [] OTHER -> 0

Emitted(m) == \E i \in DOMAIN suggestions : suggestions[i] = m
EmittedRule(r) == \E i \in DOMAIN suggestions : RuleIndex(suggestions[i]) = r

\* C1: in every analysis run each count-based rule is emitted, with its
\* count, exactly when its own count meets its threshold (long >= 3,
\* passive >= 3, adverbs >= 3, misspellings >= 5, long bullets >= 1),
\* whatever the other rules do; every suggestion belongs to a row of the
\* table, no row is emitted twice and the suggestions are in table order.
C1_RulesIndependentInOrder ==
    Analysed =>
        /\ EmittedRule(3) <=> CountLong >= 3
        /\ EmittedRule(3) => Emitted(MsgLong(CountLong))
        /\ EmittedRule(4) <=> CountPassive >= 3
        /\ EmittedRule(4) => Emitted(MsgPassive(CountPassive))
        /\ EmittedRule(5) <=> CountAdverbs >= 3
        /\ EmittedRule(5) => Emitted(MsgAdverbs(CountAdverbs))
        /\ EmittedRule(6) <=> CountSpell >= 5
        /\ EmittedRule(6) => Emitted(MsgSpell(CountSpell))
        /\ EmittedRule(7) <=> CountBullets >= 1
        /\ EmittedRule(7) => Emitted(MsgBullets(CountBullets))
        /\ \A i \in DOMAIN suggestions : RuleIndex(suggestions[i]) \in 1..8
        /\ \A i, j \in DOMAIN suggestions :
              i < j => RuleIndex(suggestions[i]) < RuleIndex(suggestions[j])

\* All seven rules fire in one run.
C1_Witness == Analysed /\ Len(suggestions) = 7 /\ \A r \in 1..7 : EmittedRule(r)

FleschKey == "Flesch Reading Ease (higher is easier)"

\* The condition of each row of the rule table, read off the page and the
\* uploaded document.
RuleHolds(r) ==
    CASE r = 1 -> shownStats # <<>> /\ shownStats[1][FleschKey] < 60 * 10
      [] r = 2 -> metrics[1].avg > 20 * 100
      [] r = 3 -> CountLong >= 3
      [] r = 4 -> CountPassive >= 3
      [] r = 5 -> CountAdverbs >= 3
      [] r = 6 -> CountSpell >= 5
      [] r = 7 -> CountBullets >= 1

ZeroIssues ==
    /\ CountLong = 0 /\ CountPassive = 0 /\ CountAdverbs = 0 /\ CountBullets = 0
    /\ Doc.nUnknown = 0 /\ Doc.nDupes = 0 /\ Doc.nCaps = 0

EmptyMapping == Doc.read.failAt # 0

\* C2 as stated: after an analysis run the suggestion list is never empty,
\* the fallback is in it exactly when none of the seven rules fired, it is
\* then the only element, and zero issues in every check together with an
\* empty readability mapping give exactly the fallback.
C2_FallbackWhenNoIssues ==
    Analysed =>
        /\ Len(suggestions) >= 1
        /\ Emitted(Fallback) <=> \A r \in 1..7 : ~EmittedRule(r)
        /\ Emitted(Fallback) => suggestions = <<Fallback>>
        /\ ZeroIssues /\ EmptyMapping => suggestions = <<Fallback>>

\* C2 (amended): after an analysis run the suggestion list is never empty,
\* the fallback is in it exactly when the condition of none of the seven
\* rules holds, it is then the only element, and zero issues in every
\* check together with an empty readability mapping and an average of at
\* most 20 words per sentence give exactly the fallback.
C2_FallbackIffNoRuleFired ==
    Analysed =>
        /\ Len(suggestions) >= 1
        /\ Emitted(Fallback) <=> \A r \in 1..7 : ~RuleHolds(r)
        /\ Emitted(Fallback) <=> \A r \in 1..7 : ~EmittedRule(r)
        /\ Emitted(Fallback) => suggestions = <<Fallback>>
        /\ ( /\ ZeroIssues /\ EmptyMapping
             /\ DocWords(Doc) <= 20 * Len(DocSentences(Doc)) )
           => suggestions = <<Fallback>>

\* A run on a document without issues, without readability scores and with
\* short sentences, showing the fallback alone.
C2_Witness ==
    /\ Analysed /\ ZeroIssues /\ EmptyMapping
    /\ DocWords(Doc) <= 20 * Len(DocSentences(Doc))
    /\ suggestions = <<Fallback>>

\* C3: when PdfReader fails or the stripped text has fewer than 200
\* characters the run shows the OCR warning and nothing else (no metrics,
\* no readability block, no suggestions, no details, no report); a text of
\* 200 characters or more is analysed and no warning is shown.
C3_ShortTextOnlyWarning ==
    HasFile =>
        IF Doc.parse = "raises" \/ TextLen(Doc) < 200
        THEN /\ warning
             /\ metrics = <<>> /\ shownStats = <<>> /\ suggestions = <<>>
             /\ detailed = <<>> /\ report = <<>>
        ELSE /\ ~warning
             /\ Analysed /\ suggestions # <<>> /\ report # <<>>

\* A text of 201 characters that strip() shortens to 199 gets the warning.
C3_Witness ==
    /\ HasFile /\ Doc.parse = "ok" /\ Doc.rawLen = 201 /\ TextLen(Doc) = 199
    /\ warning

\* C4: when a textstat call fails the mapping is empty: no readability
\* block is shown, the Flesch rule does not fire, and the run goes on (the
\* count rules are evaluated, suggestions and report are produced).  When no
\* call fails the six scores are shown.  The Flesch suggestion is emitted
\* exactly when the mapping is non-empty and its Flesch Reading Ease is
\* below 60.
C4_ReadabilityFailureIsEmptyMapping ==
    Analysed =>
        /\ Doc.read.failAt # 0 =>
              /\ shownStats = <<>>
              /\ ~Emitted(MsgFlesch)
              /\ Len(suggestions) >= 1 /\ report # <<>>
              /\ \A r \in 3..7 : EmittedRule(r) <=> RuleHolds(r)
        /\ Doc.read.failAt = 0 =>
              /\ shownStats # <<>>
              /\ DOMAIN shownStats[1] = StatKeys
        /\ shownStats # <<>> => DOMAIN shownStats[1] = StatKeys
        /\ Emitted(MsgFlesch) <=>
              (shownStats # <<>> /\ shownStats[1][FleschKey] < 60 * 10)

\* The last textstat call fails on a document whose Flesch score is 55, and
\* other rules still fire.
C4_Witness ==
    /\ Analysed /\ Doc.read.failAt = 6 /\ Doc.read.fleschRaw = 5500
    /\ Len(suggestions) >= 3 /\ report # <<>>

\* The lines of a string: the pieces between its newline characters.
LinesOf(r) ==
    LET nl == SelectSeq([i \in 1..Len(r) |-> i], LAMBDA i : Char(r, i) = "\n")
    IN  [k \in 1..(Len(nl) + 1) |->
            SubSeq(r, (IF k = 1 THEN 1 ELSE nl[k - 1] + 1),
                      (IF k > Len(nl) THEN Len(r) ELSE nl[k] - 1))]

BulletCount(r) ==
    LET ls == LinesOf(r) IN Cardinality({ k \in DOMAIN ls : StartsWith(ls[k], "- ") })

\* C5: in every analysis run, detailed or not, a report is offered; its
\* first line is the title and the others are one "- " bullet per
\* suggestion, in the order of the suggestion list, so the number of bullet
\* lines is the length of the suggestion list, which is at least 1.  No
\* report is offered without analysis.
C5_ReportMirrorsSuggestions ==
    /\ Analysed <=> report # <<>>
    /\ Analysed =>
          LET ls == LinesOf(report[1])
          IN  /\ Len(ls) = Len(suggestions) + 1
              /\ ls[1] = "# PDF Suggestions Report"
              /\ \A i \in DOMAIN suggestions : ls[i + 1] = "- " \o suggestions[i]
              /\ BulletCount(report[1]) = Len(suggestions)
              /\ BulletCount(report[1]) >= 1

\* A report of several bullets offered with the detailed mode off.
C5_Witness == Analysed /\ ~adv /\ Len(suggestions) >= 4 /\ report # <<>>

\* C6 as stated: "Shorten sentences" is emitted exactly when the total
\* number of words divided by the number of sentences is greater than 20;
\* with an average of 15 and a Flesch Reading Ease of 55 the readability
\* suggestion is emitted and "Shorten sentences" is not.
C6_ShortenIffAverageAbove20 ==
    Analysed =>
        /\ Emitted(MsgAvg) <=> DocWords(Doc) > 20 * Len(DocSentences(Doc))
        /\ ( /\ DocWords(Doc) = 15 * Len(DocSentences(Doc))
             /\ Doc.read = [failAt |-> 0, fleschRaw |-> 5500] )
           => Emitted(MsgFlesch) /\ ~Emitted(MsgAvg)

\* C7: the issue lists are on the page only in detailed mode (never with
\* the checkbox off, always after an analysis with it on), and each of the
\* lists displayed has at most 50 items whatever the number of issues.
C7_DetailsOnlyInDetailedModeCapped ==
    /\ ~adv => detailed = <<>>
    /\ detailed # <<>> => adv /\ Analysed
    /\ Analysed /\ adv => detailed # <<>>
    /\ detailed # <<>> =>
          LET x == detailed[1]
          IN  /\ DOMAIN x = {"long", "passive", "adverbs", "dupes", "caps", "bullets", "spell"}
              /\ \A f \in DOMAIN x : Len(x[f]) <= 50
              /\ Len(x.long) = Min(CountLong, 50)
              /\ Len(x.passive) = Min(CountPassive, 50)
              /\ Len(x.adverbs) = Min(CountAdverbs, 50)
              /\ Len(x.dupes) = Min(Doc.nDupes, 50)
              /\ Len(x.bullets) = Min(CountBullets, 50)

\* More than 50 long sentences and more than 50 duplicate pairs found, 50
\* of each displayed.
C7_Witness ==
    /\ adv /\ detailed # <<>>
    /\ CountLong > 50 /\ Len(detailed[1].long) = 50
    /\ Doc.nDupes > 50 /\ Len(detailed[1].dupes) = 50

\* C8 as stated: spelling_suggestions returns at most 30 pairs, one per
\* unknown word in alphabetical order, and a word the dictionary has no
\* correction for is paired with itself, never with a missing value.
C8_NoCorrectionKeepsWord ==
    detailed # <<>> =>
        LET sp == detailed[1].spell
        IN  /\ Len(sp) <= 30
            /\ Len(sp) = Min(Doc.nUnknown, 30)
            /\ \A k \in DOMAIN sp :
                  /\ sp[k][1] = k
                  /\ sp[k][2] # <<>>
                  /\ ~HasCandidate(sp[k][1]) => sp[k][2] = <<sp[k][1]>>

\* C9: for normalized single-spaced text, splitting the sentences joined by
\* single spaces gives the same sentences, each sentence splits into itself
\* alone, and every sentence is non-empty without leading or trailing
\* whitespace.
C9_SplitIdempotent ==
    /\ phase # "input" /\ Normalized(text) =>
          \A k \in DOMAIN sents :
              /\ sents[k] # ""
              /\ Char(sents[k], 1) \notin Whitespace
              /\ Char(sents[k], Len(sents[k])) \notin Whitespace
              /\ split_sentences(sents[k]) = <<sents[k]>>
    /\ phase = "done" /\ Normalized(text) => again = sents

\* A normalized text of two sentences, split twice.
C9_Witness == phase = "done" /\ Normalized(text) /\ Len(sents) = 2 /\ again = sents

\* C10: a rerun with the same uploaded file (the checkbox toggled) shows the
\* same warning, summary metrics, readability block, suggestion list and
\* report as the run before it.
C10_RerunsArePure ==
    [][ (uploaded' = uploaded) =>
            /\ warning' = warning
            /\ metrics' = metrics
            /\ shownStats' = shownStats
            /\ suggestions' = suggestions
            /\ report' = report ]_vars

\* An analysis run caused by toggling the checkbox on an uploaded file.
C10_Witness == HasFile /\ lastEvent = "toggle" /\ Analysed /\ adv

====
